---- MODULE Spec2Model ----
(***************************************************************************)
(* ERA5 Monthly Aggregates -- AOI Climate Processor                        *)
(* (advanced_era5_analyses.js).                                            *)
(*                                                                         *)
(* The script runs top to bottom once, then reacts to the two map widgets. *)
(* Every Earth Engine object it builds is a deferred computation; the      *)
(* model keeps, for each script variable, the value that object evaluates  *)
(* to on the platform: a collection / image / table, or an evaluation      *)
(* error (tag "err").  An evaluation error never stops the client script:  *)
(* it surfaces in whatever consumer (chart, export task, map layer)        *)
(* evaluates the object.                                                   *)
(*                                                                         *)
(* Numbers are fixed point in thousandths: 273.15 is 273150, 0.001 is 1.   *)
(* Time stamps (system:time_start) count months since 1970-01.             *)
(***************************************************************************)
EXTENDS Integers, Sequences, FiniteSets, TLC

\* ------------------------------------------------------------------ bounds
Y0 == 2019             \* first year held by the catalog
MaxYears == 2          \* number of catalog years
NPix == 2              \* pixels of the grid
PartialMonths == 6     \* months held by a partially covered year

\* ------------------------------------------------------- program constants
nativeScale == 5000
KELVIN_OFFSET == 273150        \* subtract(273.15)
MM_PER_M == 1000               \* multiply(1000)

Years == Y0 .. (Y0 + MaxYears - 1)
Months == 1 .. 12
Pixels == 1 .. NPix

MONTH_NAMES ==
  <<"Jan","Feb","Mar","Apr","May","Jun","Jul","Aug","Sep","Oct","Nov","Dec">>

RAW_BANDS ==
  <<"total_precipitation", "mean_2m_air_temperature",
    "minimum_2m_air_temperature", "maximum_2m_air_temperature",
    "u_component_of_wind_10m", "v_component_of_wind_10m">>

Range(s) == { s[i] : i \in DOMAIN s }

\* ------------------------------------------------------------------ values
Err == [tag |-> "err"]
IsErr(x) == x.tag = "err"
Null == << >>
Num(v) == << v >>

\* ------------------------------------------------------------- time stamps
\* ee.Date.fromYMD(y, m, 1) in months since 1970-01
fromYMD(y, m) == (y - 1970) * 12 + (m - 1)
\* calendar fields read by ee.Filter.calendarRange
CalendarYear(t) == 1970 + (t \div 12)
CalendarMonth(t) == (t % 12) + 1

\* -------------------------------------------------------------- arithmetic
RECURSIVE SumSeq(_)
SumSeq(s) == IF s = << >> THEN 0 ELSE Head(s) + SumSeq(Tail(s))

RECURSIVE SetToSeq(_)
SetToSeq(S) ==
  IF S = {} THEN << >>
  ELSE LET x == CHOOSE a \in S : \A b \in S : a <= b
       IN <<x>> \o SetToSeq(S \ {x})

\* ascending insertion sort of a sequence of numbers
RECURSIVE SortAsc(_)
SortAsc(s) ==
  IF s = << >> THEN << >>
  ELSE LET i == CHOOSE k \in DOMAIN s : \A j \in DOMAIN s : s[k] <= s[j]
       IN <<s[i]>> \o SortAsc([k \in 1 .. (Len(s) - 1) |->
                                 IF k < i THEN s[k] ELSE s[k + 1]])

MeanOf(s) == SumSeq(s) \div Len(s)
MedianOf(s) ==
  LET t == SortAsc(s)
      n == Len(t)
  IN IF n % 2 = 1 THEN t[(n + 1) \div 2]
     ELSE (t[n \div 2] + t[(n \div 2) + 1]) \div 2

\* the temporal reducers of ee.ImageCollection: sum / mean / median
Reduce(reducer, s) ==
  CASE reducer = "sum" -> SumSeq(s)
    [] reducer = "median" -> MedianOf(s)
    [] OTHER -> MeanOf(s)

\* ------------------------------------------------------- images, collections
\* An image: [tag |-> "ok", props, bands], bands : name -> (pixel -> value).
\* A collection: [tag |-> "ok", images |-> sequence of images].
NoProps == << >>
NoBands == << >>
Image(props, bands) == [tag |-> "ok", props |-> props, bands |-> bands]
Collection(images) == [tag |-> "ok", images |-> images]
AnyErr(s) == \E i \in DOMAIN s : IsErr(s[i])

\* ee.Image.select(names): every name must match a band
Select(img, names) ==
  IF IsErr(img) THEN Err
  ELSE IF ~(names \subseteq DOMAIN img.bands) THEN Err
  ELSE Image(img.props, [b \in names |-> img.bands[b]])

\* ee.Image.rename(name): one new name, so the image must hold one band
Rename(img, name) ==
  IF IsErr(img) THEN Err
  ELSE IF Cardinality(DOMAIN img.bands) # 1 THEN Err
  ELSE LET old == CHOOSE b \in DOMAIN img.bands : TRUE
       IN Image(img.props, [b \in {name} |-> img.bands[old]])

\* ee.Image.multiply(k) / subtract(k) with a constant
Multiply(img, k) ==
  IF IsErr(img) THEN Err
  ELSE Image(NoProps, [b \in DOMAIN img.bands |->
                         [p \in DOMAIN img.bands[b] |-> img.bands[b][p] * k]])
Subtract(img, k) ==
  IF IsErr(img) THEN Err
  ELSE Image(NoProps, [b \in DOMAIN img.bands |->
                         [p \in DOMAIN img.bands[b] |-> img.bands[b][p] - k]])

\* ee.Image.cat(list of images)
Cat(imgs) ==
  IF AnyErr(imgs) THEN Err
  ELSE Image(NoProps,
             [b \in UNION { DOMAIN imgs[i].bands : i \in DOMAIN imgs } |->
                LET i == CHOOSE j \in DOMAIN imgs : b \in DOMAIN imgs[j].bands
                IN imgs[i].bands[b]])

\* ee.Element.copyProperties(source, names)
CopyProperties(dest, src, names) ==
  IF IsErr(dest) \/ IsErr(src) THEN Err
  ELSE Image([q \in (names \cap DOMAIN src.props) |-> src.props[q]] @@ dest.props,
             dest.bands)

\* ee.Element.set(key, value)
SetProp(img, key, value) ==
  IF IsErr(img) THEN Err ELSE Image((key :> value) @@ img.props, img.bands)

\* ee.Image.clip(geometry)
Clip(img, geom) ==
  IF IsErr(img) \/ IsErr(geom) THEN Err
  ELSE Image(img.props, [b \in DOMAIN img.bands |->
                           [p \in (DOMAIN img.bands[b]) \cap geom.pixels |->
                              img.bands[b][p]]])

\* ee.ImageCollection.filterDate(start, end): start <= time_start < end
FilterDate(col, t0, t1) ==
  IF IsErr(col) THEN Err
  ELSE Collection(SelectSeq(col.images,
         LAMBDA im : /\ "system:time_start" \in DOMAIN im.props
                     /\ t0 <= im.props["system:time_start"]
                     /\ im.props["system:time_start"] < t1))

\* ee.Filter.calendarRange(v, v, field), field 'month' or 'year'; an image
\* without system:time_start matches no calendar filter
FilterCalendar(col, field, v) ==
  IF IsErr(col) THEN Err
  ELSE Collection(SelectSeq(col.images,
         LAMBDA im : /\ "system:time_start" \in DOMAIN im.props
                     /\ IF field = "month"
                        THEN CalendarMonth(im.props["system:time_start"]) = v
                        ELSE CalendarYear(im.props["system:time_start"]) = v))

\* ee.Filter.eq(prop, v)
FilterEq(col, prop, v) ==
  IF IsErr(col) THEN Err
  ELSE Collection(SelectSeq(col.images,
         LAMBDA im : prop \in DOMAIN im.props /\ im.props[prop] = v))

\* ee.ImageCollection.select(names): the selection of every image
CollectionSelect(col, names) ==
  IF IsErr(col) THEN Err
  ELSE LET out == [i \in DOMAIN col.images |-> Select(col.images[i], names)]
       IN IF AnyErr(out) THEN Err ELSE Collection(out)

\* ee.ImageCollection.sum() / mean() / median(): per band and pixel; the
\* reduction of an empty collection is an image without bands
CollectionReduce(col, reducer) ==
  IF IsErr(col) THEN Err
  ELSE IF col.images = << >> THEN Image(NoProps, NoBands)
  ELSE LET ims == col.images
       IN Image(NoProps,
            [b \in DOMAIN ims[1].bands |->
               [p \in DOMAIN ims[1].bands[b] |->
                  Reduce(reducer, [i \in DOMAIN ims |-> ims[i].bands[b][p]])]])

\* ee.ImageCollection.first()
First(col) ==
  IF IsErr(col) THEN Err
  ELSE IF col.images = << >> THEN Err
  ELSE col.images[1]

\* ee.Image.reduceRegion(ee.Reducer.mean(), geometry).get(band): the areal
\* mean of the band over the pixels of the geometry, null without pixels
ReduceRegionGet(img, geom, band) ==
  IF IsErr(img) \/ IsErr(geom) THEN Err
  ELSE IF band \notin DOMAIN img.bands THEN Err
  ELSE LET px == SetToSeq((DOMAIN img.bands[band]) \cap geom.pixels)
       IN [tag |-> "ok",
           v |-> IF px = << >> THEN Null
                 ELSE Num(MeanOf([i \in DOMAIN px |-> img.bands[band][px[i]]]))]

\* ------------------------------------------------------------------ strings
DIGITS == <<"0","1","2","3","4","5","6","7","8","9">>
\* '' + n for a non-negative integer n
RECURSIVE NumStr(_)
NumStr(n) ==
  IF n < 10 THEN DIGITS[n + 1] ELSE NumStr(n \div 10) \o DIGITS[(n % 10) + 1]

\* String.prototype.toLowerCase on the metric spellings of the model
toLowerCase(str) ==
  CASE str = "MEDIAN" -> "median"
    [] str = "Mean" -> "mean"
    [] OTHER -> str

\* --------------------------------------------------------------- utilities
\* pad2 without the leading zero
pad2_Unpadded(m) == NumStr(m)

pad2(m) == (IF m < 10 THEN "0" ELSE "") \o NumStr(m)

\* the asset store holds a set of features, each covering a set of pixels;
\* FeatureCollection.geometry() is their union
loadAOIGeometry(assetFeatures) ==
  [tag |-> "ok",
   parts |-> Cardinality(assetFeatures),
   pixels |-> UNION assetFeatures]

getClimMetric(averagingMetric) ==
  LET metric == toLowerCase(averagingMetric)
  IN IF metric = "median" THEN "median" ELSE "mean"

monthlyClimatology(ic, band, metric) ==
  LET imgs == [m \in Months |->
        LET mcol == CollectionSelect(FilterCalendar(ic, "month", m), {band})
            composite == IF metric = "median"
                         THEN CollectionReduce(mcol, "median")
                         ELSE CollectionReduce(mcol, "mean")
        IN SetProp(SetProp(SetProp(Rename(composite, band),
                                   "month", m), "band", band), "metric", metric)]
  IN IF AnyErr(imgs) THEN Err ELSE Collection(imgs)

\* ee.List.sequence(a, b)
ListSequence(a, b) == [i \in 1 .. (b - a + 1) |-> a + i - 1]

annualSeries(ic, band, method, region, startYear, endYear) ==
  LET years == ListSequence(startYear, endYear)
      vals == [i \in DOMAIN years |->
        LET ycol == CollectionSelect(FilterCalendar(ic, "year", years[i]), {band})
            yimg == Rename(IF method = "sum" THEN CollectionReduce(ycol, "sum")
                           ELSE CollectionReduce(ycol, "mean"), band)
        IN ReduceRegionGet(yimg, region, band)]
  IN IF AnyErr(vals) THEN Err
     ELSE [tag |-> "ok",
           features |-> [i \in DOMAIN years |->
                           [year |-> years[i], value |-> vals[i].v]]]

monthlyValuesForChart(monthlyIC, band, region) ==
  LET vals == [m \in Months |->
        LET img == Select(First(FilterEq(monthlyIC, "month", m)), {band})
        IN ReduceRegionGet(img, region, band)]
  IN IF AnyErr(vals) THEN Err
     ELSE [tag |-> "ok",
           features |-> [m \in Months |->
                           [month |-> m, label |-> MONTH_NAMES[m],
                            value |-> vals[m].v]]]

\* convert without the final copyProperties: the time stamp is lost
convert_DropsTimeStart(img) ==
  Cat(<< Rename(Multiply(Select(img, {"total_precipitation"}), MM_PER_M), "tp_mm"),
         Rename(Subtract(Select(img, {"mean_2m_air_temperature"}), KELVIN_OFFSET), "tmean_C"),
         Rename(Subtract(Select(img, {"minimum_2m_air_temperature"}), KELVIN_OFFSET), "tmin_C"),
         Rename(Subtract(Select(img, {"maximum_2m_air_temperature"}), KELVIN_OFFSET), "tmax_C"),
         Rename(Select(img, {"u_component_of_wind_10m"}), "u10"),
         Rename(Select(img, {"v_component_of_wind_10m"}), "v10") >>)

\* the function mapped over ERA5 to build ERA5x
convert(img) ==
  LET tp_mm == Rename(Multiply(Select(img, {"total_precipitation"}), MM_PER_M), "tp_mm")
      tmean == Rename(Subtract(Select(img, {"mean_2m_air_temperature"}), KELVIN_OFFSET), "tmean_C")
      tmin  == Rename(Subtract(Select(img, {"minimum_2m_air_temperature"}), KELVIN_OFFSET), "tmin_C")
      tmax  == Rename(Subtract(Select(img, {"maximum_2m_air_temperature"}), KELVIN_OFFSET), "tmax_C")
      u10   == Rename(Select(img, {"u_component_of_wind_10m"}), "u10")
      v10   == Rename(Select(img, {"v_component_of_wind_10m"}), "v10")
  IN CopyProperties(Cat(<<tp_mm, tmean, tmin, tmax, u10, v10>>), img,
                    {"system:time_start"})

\* ERA5.map(convert): fails as a whole when convert fails on an image
MapConvert(col) ==
  IF IsErr(col) THEN Err
  ELSE LET out == [i \in DOMAIN col.images |-> convert(col.images[i])]
       IN IF AnyErr(out) THEN Err ELSE Collection(out)

\* ------------------------------------------------------ the four variables
\* (the script's degree sign and long dash are written "degC" and "--")
VAR_KEYS == <<"tp", "tmean", "tmin", "tmax">>
BAND == [tp |-> "tp_mm", tmean |-> "tmean_C", tmin |-> "tmin_C", tmax |-> "tmax_C"]
VAR_LABEL == [tp |-> "TPmm", tmean |-> "TmeanC", tmin |-> "TminC", tmax |-> "TmaxC"]
ANNUAL_METHOD == [tp |-> "sum", tmean |-> "mean", tmin |-> "mean", tmax |-> "mean"]
UI_LABEL == [tp |-> "Total Precipitation (mm)", tmean |-> "Avg Air Temp (degC)",
             tmin |-> "Min Air Temp (degC)", tmax |-> "Max Air Temp (degC)"]
UI_LABELS == { UI_LABEL[k] : k \in Range(VAR_KEYS) }
KeyOfLabel(vLabel) == CHOOSE k \in Range(VAR_KEYS) : UI_LABEL[k] = vLabel
VAR_TO_BAND(vLabel) == BAND[KeyOfLabel(vLabel)]
VIZ == [tp_mm   |-> [min |-> 0,   max |-> 800, palette |-> "PALETTE_BLUES"],
        tmean_C |-> [min |-> -20, max |-> 35,  palette |-> "PALETTE_TEMP"],
        tmin_C  |-> [min |-> -40, max |-> 25,  palette |-> "PALETTE_TEMP"],
        tmax_C  |-> [min |-> -5,  max |-> 45,  palette |-> "PALETTE_TEMP"]]
DRIVE_FOLDER == "EE_ERA5_Monthly"
currentLayerName == "Monthly Climatology"

\* --------------------------------------------------------------- the inputs
\* raw pixel values of the catalog (thousandths of m, K, m/s)
RawValue(b, y, m, p, mode) ==
  IF mode = "const"
  THEN CASE b = "total_precipitation" -> 10
         [] b \in {"u_component_of_wind_10m", "v_component_of_wind_10m"} -> 3000
         [] OTHER -> 293150
  ELSE CASE b = "total_precipitation" -> m + 2 * p + 3 * (y - Y0)
         [] b = "mean_2m_air_temperature" -> 273150 + 1000 * m + 100 * p + 10 * (y - Y0)
         [] b = "minimum_2m_air_temperature" -> 268150 + 1000 * m + 100 * p + 10 * (y - Y0)
         [] b = "maximum_2m_air_temperature" -> 278150 + 1000 * m + 100 * p + 10 * (y - Y0)
         [] b = "u_component_of_wind_10m" -> 1000 * (m - 6) + p
         [] OTHER -> 0 - (1000 * m) - y

RawImage(y, m, mode, bands) ==
  Image(("system:time_start" :> fromYMD(y, m)) @@ ("month" :> m) @@ ("year" :> y),
        [b \in bands |-> [p \in Pixels |-> RawValue(b, y, m, p, mode)]])

\* the images the dataset holds: the first cov[y] months of every year y, in
\* time order; the first image lacks the band `missing` (none lacks "none")
Catalog(cov, mode, missing) ==
  LET all == [i \in 1 .. (12 * MaxYears) |->
                [y |-> Y0 + ((i - 1) \div 12), m |-> ((i - 1) % 12) + 1]]
      held == SelectSeq(all, LAMBDA e : e.m <= cov[e.y])
  IN [i \in DOMAIN held |->
        RawImage(held[i].y, held[i].m, mode,
                 IF i = 1 THEN Range(RAW_BANDS) \ {missing} ELSE Range(RAW_BANDS))]

\* the dataset covers a run of consecutive months that starts in January
Coverages ==
  { cov \in [Years -> {0, PartialMonths, 12}] :
      \A y1, y2 \in Years :
        (y1 < y2 /\ cov[y1] > 0 /\ cov[y2] > 0) =>
          \A y \in y1 .. (y2 - 1) : cov[y] = 12 }
Catalogs ==
  { Catalog(cov, c[1], c[2]) :
      cov \in Coverages,
      c \in { <<"const", "none">>, <<"vary", "none">>,
              <<"vary", "total_precipitation">> } }
Assets == { {}, {{1}}, { {p} : p \in Pixels } }
Metrics == {"mean", "MEDIAN", "max"}
Unset == [tag |-> "unset"]

\* -------------------------------------------------------------------- state
VARIABLES
  catalog,           \* ECMWF/ERA5/MONTHLY as held by the platform
  asset,             \* the features stored under AOI_ASSET_ID
  START_YEAR, END_YEAR, AVERAGING_METRIC,      \* user parameters
  pc,                \* position of the script
  AOI, ERA5, ERA5x, metric,
  clim,              \* climTP, climTmean, climTmin, climTmax
  exportTasks,       \* tasks created by Export.image.toDrive, in order
  chartMonthly,      \* tables behind chartMonthlyTP .. chartMonthlyTmax
  chartAnnual,       \* tables behind chartAnnualTP .. chartAnnualTmax
  selVar, selMonth,  \* values of the two widgets
  mapLayers          \* Map.layers()

vars == <<catalog, asset, START_YEAR, END_YEAR, AVERAGING_METRIC, pc, AOI,
          ERA5, ERA5x, metric, clim, exportTasks, chartMonthly, chartAnnual,
          selVar, selMonth, mapLayers>>
inputs == <<catalog, asset, START_YEAR, END_YEAR, AVERAGING_METRIC>>

Init ==
  /\ catalog \in Catalogs
  /\ asset \in Assets
  /\ START_YEAR \in Years
  /\ END_YEAR \in Years
  /\ START_YEAR <= END_YEAR
  /\ AVERAGING_METRIC \in Metrics
  /\ pc = "loadAOI"
  /\ AOI = Unset /\ ERA5 = Unset /\ ERA5x = Unset
  /\ metric = ""
  /\ clim = [k \in Range(VAR_KEYS) |-> Unset]
  /\ exportTasks = << >>
  /\ chartMonthly = [k \in Range(VAR_KEYS) |-> Unset]
  /\ chartAnnual = [k \in Range(VAR_KEYS) |-> Unset]
  /\ selVar = "" /\ selMonth = 0
  /\ mapLayers = << >>

\* ------------------------------------------------------------------ exports
fileBase(varLabel, met, startYear, endYear, m) ==
  "ERA5_" \o varLabel \o "_" \o met \o "_" \o NumStr(startYear) \o "-"
    \o NumStr(endYear) \o "_M" \o pad2(m)

\* the 12 tasks one call of exportMonthlyRasters hands to Export.image.toDrive
exportMonthlyRasters(monthlyIC, band, varLabel, aoi, met, startYear, endYear) ==
  [m \in Months |->
     [image |-> Clip(Select(First(FilterEq(monthlyIC, "month", m)), {band}), aoi),
      description |-> fileBase(varLabel, met, startYear, endYear, m),
      folder |-> DRIVE_FOLDER,
      fileNamePrefix |-> fileBase(varLabel, met, startYear, endYear, m),
      region |-> aoi,
      scale |-> nativeScale]]

\* ------------------------------------------------------------------- map UI
AOILayer == [eeObject |-> "aoiOutline", visParams |-> [palette |-> "000000"],
             name |-> "AOI"]

\* updateMap that shows the composite of the month before the slider's
updateMap_StaleMonth(vLabel, m, climOf, aoi) ==
  LET ic == climOf[KeyOfLabel(vLabel)]
      band == VAR_TO_BAND(vLabel)
      shown == IF m = 1 THEN 12 ELSE m - 1
      img == Clip(Select(First(FilterEq(ic, "month", shown)), {band}), aoi)
  IN << AOILayer,
        [eeObject |-> img, visParams |-> VIZ[band],
         name |-> currentLayerName \o " -- " \o vLabel \o " -- " \o MONTH_NAMES[m]] >>

\* the layers updateMap() hands to Map.layers().reset, from the widget values
updateMap(vLabel, m, climOf, aoi) ==
  LET ic == climOf[KeyOfLabel(vLabel)]
      band == VAR_TO_BAND(vLabel)
      img == Clip(Select(First(FilterEq(ic, "month", m)), {band}), aoi)
  IN << AOILayer,
        [eeObject |-> img, visParams |-> VIZ[band],
         name |-> currentLayerName \o " -- " \o vLabel \o " -- " \o MONTH_NAMES[m]] >>

\* ------------------------------------------------------------------ actions
\* lines 192-193: AOI = loadAOIGeometry(...); centerOn(AOI, MAP_ZOOM)
LoadAOI ==
  /\ pc = "loadAOI"
  /\ AOI' = loadAOIGeometry(asset)
  /\ pc' = "loadERA5"
  /\ UNCHANGED <<inputs, ERA5, ERA5x, metric, clim, exportTasks, chartMonthly,
                 chartAnnual, selVar, selMonth, mapLayers>>

\* Map.centerObject evaluates the geometry at once; whether the platform
\* rejects an empty geometry there is not decided by the script, so both
\* outcomes are kept: the script may stop at line 193
CenterOnThrows ==
  /\ pc = "loadAOI"
  /\ asset = {}
  /\ AOI' = loadAOIGeometry(asset)
  /\ pc' = "aborted"
  /\ UNCHANGED <<inputs, ERA5, ERA5x, metric, clim, exportTasks, chartMonthly,
                 chartAnnual, selVar, selMonth, mapLayers>>

\* lines 196-209: filterDate(startDate, endDate.advance(1, 'day')).select(...)
LoadERA5 ==
  /\ pc = "loadERA5"
  /\ ERA5' = CollectionSelect(
               FilterDate(Collection(catalog), fromYMD(START_YEAR, 1),
                          fromYMD(END_YEAR + 1, 1)),
               Range(RAW_BANDS))
  /\ pc' = "convert"
  /\ UNCHANGED <<inputs, AOI, ERA5x, metric, clim, exportTasks, chartMonthly,
                 chartAnnual, selVar, selMonth, mapLayers>>

\* lines 212-222
ConvertUnits ==
  /\ pc = "convert"
  /\ ERA5x' = MapConvert(ERA5)
  /\ pc' = "clim"
  /\ UNCHANGED <<inputs, AOI, ERA5, metric, clim, exportTasks, chartMonthly,
                 chartAnnual, selVar, selMonth, mapLayers>>

\* lines 229-234
BuildClimatologies ==
  /\ pc = "clim"
  /\ metric' = getClimMetric(AVERAGING_METRIC)
  /\ clim' = [k \in Range(VAR_KEYS) |-> monthlyClimatology(ERA5x, BAND[k], metric')]
  /\ pc' = "export"
  /\ UNCHANGED <<inputs, AOI, ERA5, ERA5x, exportTasks, chartMonthly,
                 chartAnnual, selVar, selMonth, mapLayers>>

\* lines 273-276: the k-th call of exportMonthlyRasters
ExportCall(k) ==
  /\ pc = "export"
  /\ Len(exportTasks) = 12 * (k - 1)
  /\ exportTasks' = exportTasks \o
       exportMonthlyRasters(clim[VAR_KEYS[k]], BAND[VAR_KEYS[k]],
                            VAR_LABEL[VAR_KEYS[k]], AOI, metric,
                            START_YEAR, END_YEAR)
  /\ pc' = IF k = Len(VAR_KEYS) THEN "monthlyCharts" ELSE "export"
  /\ UNCHANGED <<inputs, AOI, ERA5, ERA5x, metric, clim, chartMonthly,
                 chartAnnual, selVar, selMonth, mapLayers>>

\* lines 306-313
DrawMonthlyBarCharts ==
  /\ pc = "monthlyCharts"
  /\ chartMonthly' = [k \in Range(VAR_KEYS) |->
                        monthlyValuesForChart(clim[k], BAND[k], AOI)]
  /\ pc' = "annualCharts"
  /\ UNCHANGED <<inputs, AOI, ERA5, ERA5x, metric, clim, exportTasks,
                 chartAnnual, selVar, selMonth, mapLayers>>

\* lines 348-355
DrawAnnualLineCharts ==
  /\ pc = "annualCharts"
  /\ chartAnnual' = [k \in Range(VAR_KEYS) |->
                       annualSeries(ERA5x, BAND[k], ANNUAL_METHOD[k], AOI,
                                    START_YEAR, END_YEAR)]
  /\ pc' = "ui"
  /\ UNCHANGED <<inputs, AOI, ERA5, ERA5x, metric, clim, exportTasks,
                 chartMonthly, selVar, selMonth, mapLayers>>

\* lines 387-423: the AOI overlay and the two widgets with their defaults
BuildUI ==
  /\ pc = "ui"
  /\ mapLayers' = Append(mapLayers, AOILayer)
  /\ selVar' = "Total Precipitation (mm)"
  /\ selMonth' = 1
  /\ pc' = "updateMap"
  /\ UNCHANGED <<inputs, AOI, ERA5, ERA5x, metric, clim, exportTasks,
                 chartMonthly, chartAnnual>>

\* line 438: updateMap();  // initialize
InitialUpdateMap ==
  /\ pc = "updateMap"
  /\ mapLayers' = updateMap(selVar, selMonth, clim, AOI)
  /\ pc' = "ready"
  /\ UNCHANGED <<inputs, AOI, ERA5, ERA5x, metric, clim, exportTasks,
                 chartMonthly, chartAnnual, selVar, selMonth>>

\* the user picks another variable: selVar's onChange runs updateMap
OnVarChange(v) ==
  /\ pc = "ready"
  /\ v # selVar
  /\ selVar' = v
  /\ mapLayers' = updateMap(selVar', selMonth, clim, AOI)
  /\ UNCHANGED <<inputs, pc, AOI, ERA5, ERA5x, metric, clim, exportTasks,
                 chartMonthly, chartAnnual, selMonth>>

\* the user moves the month slider: selMonth's onChange runs updateMap
OnMonthChange(m) ==
  /\ pc = "ready"
  /\ m # selMonth
  /\ selMonth' = m
  /\ mapLayers' = updateMap(selVar, selMonth', clim, AOI)
  /\ UNCHANGED <<inputs, pc, AOI, ERA5, ERA5x, metric, clim, exportTasks,
                 chartMonthly, chartAnnual, selVar>>

Next ==
  \/ LoadAOI
  \/ CenterOnThrows
  \/ LoadERA5
  \/ ConvertUnits
  \/ BuildClimatologies
  \/ \E k \in DOMAIN VAR_KEYS : ExportCall(k)
  \/ DrawMonthlyBarCharts
  \/ DrawAnnualLineCharts
  \/ BuildUI
  \/ InitialUpdateMap
  \/ \E v \in UI_LABELS : OnVarChange(v)
  \/ \E m \in Months : OnMonthChange(m)

Spec == Init /\ [][Next]_vars

\* =================================================================== claims
PcOrder == <<"loadAOI", "loadERA5", "convert", "clim", "export",
             "monthlyCharts", "annualCharts", "ui", "updateMap", "ready">>
PcIndex(q) == CHOOSE i \in DOMAIN PcOrder : PcOrder[i] = q
\* the script has executed the step that starts at position q
Past(q) == pc # "aborted" /\ PcIndex(pc) > PcIndex(q)

RangeYears == START_YEAR .. END_YEAR
TimeOf(im) == im.props["system:time_start"]
\* values of band b at pixel p over the images of ic chosen by keep(_), in order
ValuesWhere(ic, b, p, keep(_)) ==
  LET idx == SetToSeq({ i \in DOMAIN ic.images : keep(ic.images[i]) })
  IN [j \in DOMAIN idx |-> ic.images[idx[j]].bands[b][p]]
InMonth(ic, m) == { i \in DOMAIN ic.images : CalendarMonth(TimeOf(ic.images[i])) = m }
InYear(ic, y) == { i \in DOMAIN ic.images : CalendarYear(TimeOf(ic.images[i])) = y }
\* areal mean over the AOI of a per-pixel value, null without pixels
ArealMean(val(_)) ==
  LET px == SetToSeq(AOI.pixels)
  IN IF px = << >> THEN Null ELSE Num(SumSeq([i \in DOMAIN px |-> val(px[i])]) \div Len(px))

\* a run whose AOI has pixels and whose converted series evaluates and holds
\* images: the claims about the builders are stated for these runs
WellFormedRun == asset # {} /\ ~IsErr(ERA5x) /\ ERA5x.images # << >>

\* the 12 composites of one climatology are tagged 1..12 in order and the
\* composite of month m reduces exactly the images of calendar month m
ClimatologyShape(k) ==
  LET c == clim[k]
      b == BAND[k]
  IN /\ ~IsErr(c)
     /\ Len(c.images) = 12
     /\ \A m \in Months :
          /\ c.images[m].props["month"] = m
          /\ c.images[m].props["band"] = b
          /\ c.images[m].props["metric"] = metric
          /\ DOMAIN c.images[m].bands = {b}
          /\ InMonth(ERA5x, m) # {} =>
               \A p \in Pixels :
                 c.images[m].bands[b][p] =
                   LET vs == ValuesWhere(ERA5x, b, p,
                               LAMBDA im : CalendarMonth(TimeOf(im)) = m)
                   IN IF metric = "median" THEN MedianOf(vs) ELSE MeanOf(vs)

\* C1: for every input series, band and metric, monthlyClimatology returns
\* exactly 12 composites in ascending month order, the i-th tagged month = i,
\* each built only from the source images of that calendar month.
C1_EveryClimatologyHasTwelveComposites ==
  (Past("clim") /\ WellFormedRun) => \A k \in Range(VAR_KEYS) : ClimatologyShape(k)

\* what the code does keep (C1): the same statement for a series that holds
\* at least one image of every calendar month
C1_HoldsWhenNoMonthIsEmpty ==
  (Past("clim") /\ WellFormedRun /\ \A m \in Months : InMonth(ERA5x, m) # {})
    => \A k \in Range(VAR_KEYS) : ClimatologyShape(k)

\* the annual table of variable k holds one record per year of the range, in
\* ascending order
AnnualShape(k) ==
  LET t == chartAnnual[k]
  IN /\ ~IsErr(t)
     /\ Len(t.features) = END_YEAR - START_YEAR + 1
     /\ \A i \in DOMAIN t.features : t.features[i].year = START_YEAR + i - 1

\* C2: annualSeries returns exactly one record per year of
\* [startYear, endYear], in strictly ascending order, whatever images the
\* series contains.
C2_OneRecordPerYear ==
  (Past("annualCharts") /\ WellFormedRun) => \A k \in Range(VAR_KEYS) : AnnualShape(k)

\* what the code does keep (C2): the same statement when every year of the
\* range holds an image
C2_HoldsWhenNoYearIsEmpty ==
  (Past("annualCharts") /\ WellFormedRun /\ \A y \in RangeYears : InYear(ERA5x, y) # {})
    => \A k \in Range(VAR_KEYS) : AnnualShape(k)

\* the record of year y is the areal mean of the sum (precipitation) or mean
\* (temperatures) over exactly the images of year y
AnnualValue(k, y) ==
  LET t == chartAnnual[k]
      b == BAND[k]
  IN /\ ~IsErr(t)
     /\ \E i \in DOMAIN t.features :
          /\ t.features[i].year = y
          /\ t.features[i].value =
               ArealMean(LAMBDA p :
                 LET vs == ValuesWhere(ERA5x, b, p, LAMBDA im : CalendarYear(TimeOf(im)) = y)
                 IN IF ANNUAL_METHOD[k] = "sum" THEN SumSeq(vs) ELSE MeanOf(vs))

\* C3: for every year y with at least one source image, the value of the
\* annual record for y is the spatial mean of the temporal reduction (sum or
\* mean) of exactly the images of year y.
C3_AnnualValueOfEveryYearWithImages ==
  (Past("annualCharts") /\ WellFormedRun) =>
    \A k \in Range(VAR_KEYS) : \A y \in RangeYears :
      InYear(ERA5x, y) # {} => AnnualValue(k, y)

\* what the code does keep (C3): the same statement when every year of the
\* range holds an image
C3_HoldsWhenNoYearIsEmpty ==
  (Past("annualCharts") /\ WellFormedRun /\ \A y \in RangeYears : InYear(ERA5x, y) # {})
    => \A k \in Range(VAR_KEYS) : \A y \in RangeYears : AnnualValue(k, y)

\* the examples of C3: constant 10 mm in each of k months sums to 10 k (120
\* for a full year); constant 20 degC means 20
C3_ConstantSeries ==
  (Past("annualCharts") /\ ~IsErr(chartAnnual["tp"]) /\ AOI.pixels # {}
     /\ \A i \in DOMAIN ERA5x.images : \A p \in Pixels :
          /\ ERA5x.images[i].bands["tp_mm"][p] = 10000
          /\ ERA5x.images[i].bands["tmean_C"][p] = 20000)
    => \A i \in DOMAIN chartAnnual["tp"].features :
         /\ chartAnnual["tp"].features[i].value =
              Num(10000 * Cardinality(InYear(ERA5x, chartAnnual["tp"].features[i].year)))
         /\ chartAnnual["tmean"].features[i].value = Num(20000)

\* C4: a year of the range with zero source images yields the record
\* {year, value: null}; the record is still emitted and the run goes on.
C4_EmptyYearYieldsNullRecord ==
  (Past("annualCharts") /\ WellFormedRun) =>
    \A k \in Range(VAR_KEYS) : \A y \in RangeYears :
      InYear(ERA5x, y) = {} =>
        /\ ~IsErr(chartAnnual[k])
        /\ \E i \in DOMAIN chartAnnual[k].features :
             chartAnnual[k].features[i] = [year |-> y, value |-> Null]

\* what the code does with an empty year (C4): every annual table of the run
\* fails to evaluate
C4_HoldsNever ==
  (Past("annualCharts") /\ WellFormedRun /\ \E y \in RangeYears : InYear(ERA5x, y) = {})
    => \A k \in Range(VAR_KEYS) : IsErr(chartAnnual[k])

\* ---------------------------------------------------------------- exports
TWO_DIGITS == <<"01","02","03","04","05","06","07","08","09","10","11","12">>
TaskVar(i) == VAR_KEYS[((i - 1) \div 12) + 1]
TaskMonth(i) == ((i - 1) % 12) + 1

\* C5: one call of exportMonthlyRasters emits exactly 12 jobs in ascending
\* month order; the file id of month m is ERA5_{varLabel}_{metric}_
\* {startYear}-{endYear}_M{m in two digits}; region = AOI, description = file
\* id; the file ids of one run are pairwise distinct.
C5_ExportJobsAndFileIds ==
  /\ Len(exportTasks) \in { 12 * n : n \in 0 .. Len(VAR_KEYS) }
  /\ Past("export") => Len(exportTasks) = 12 * Len(VAR_KEYS)
  \* exportTasks changes in ExportCall only: these are the states it leaves
  /\ pc \in {"export", "monthlyCharts"} =>
       /\ fileBase("TPmm", "mean", 1990, 2020, 3) = "ERA5_TPmm_mean_1990-2020_M03"
       /\ fileBase("TmaxC", "median", 1979, 2019, 12) = "ERA5_TmaxC_median_1979-2019_M12"
       /\ metric \in {"mean", "median"}
       /\ \A i \in DOMAIN exportTasks :
            /\ exportTasks[i].fileNamePrefix =
                 "ERA5_" \o VAR_LABEL[TaskVar(i)] \o "_" \o metric \o "_"
                   \o NumStr(START_YEAR) \o "-" \o NumStr(END_YEAR)
                   \o "_M" \o TWO_DIGITS[TaskMonth(i)]
            /\ exportTasks[i].description = exportTasks[i].fileNamePrefix
            /\ exportTasks[i].region = AOI
            /\ exportTasks[i].scale = nativeScale
            /\ ~IsErr(exportTasks[i].image) =>
                 /\ exportTasks[i].image.props["month"] = TaskMonth(i)
                 /\ DOMAIN exportTasks[i].image.bands = {BAND[TaskVar(i)]}
       /\ \A i, j \in DOMAIN exportTasks :
            i # j => exportTasks[i].fileNamePrefix # exportTasks[j].fileNamePrefix

\* all four calls done, with the median metric and a range of several years
C5_Witness ==
  /\ pc = "monthlyCharts"
  /\ Len(exportTasks) = 48
  /\ metric = "median"
  /\ START_YEAR < END_YEAR
  /\ ~IsErr(exportTasks[3].image)

\* ------------------------------------------------------------------- AOI
\* C6: when the AOI reference resolves to zero geometries the run is aborted
\* and no reduction is attempted: no climatology composite, no spatial
\* reduction and no export job is produced.
C6_ZeroGeometriesAbortBeforeAnyReduction ==
  asset = {} =>
    /\ \A k \in Range(VAR_KEYS) :
         clim[k] = Unset /\ chartMonthly[k] = Unset /\ chartAnnual[k] = Unset
    /\ exportTasks = << >>

\* ------------------------------------------------------------ missing band
HasAllBands(im) == Range(RAW_BANDS) \subseteq DOMAIN im.bands
\* the images of the catalog inside the requested date range
Requested == FilterDate(Collection(catalog), fromYMD(START_YEAR, 1),
                        fromYMD(END_YEAR + 1, 1))
\* the same series with every absent band present (filled with 0)
Repaired ==
  Collection([i \in DOMAIN Requested.images |->
     Image(Requested.images[i].props,
           [b \in Range(RAW_BANDS) |->
              IF b \in DOMAIN Requested.images[i].bands
              THEN Requested.images[i].bands[b]
              ELSE [p \in Pixels |-> 0]])])
RepairedX == MapConvert(CollectionSelect(Repaired, Range(RAW_BANDS)))

\* C7: when the precipitation band is absent from a source image, only the
\* precipitation pipeline fails; the climatology, monthly table, annual
\* series and export jobs of the other variables are those of a run where no
\* band is missing.
C7_MissingBandFailsOnlyItsVariable ==
  (/\ pc = "ready"
   /\ asset # {}
   /\ \E i \in DOMAIN Requested.images :
        "total_precipitation" \notin DOMAIN Requested.images[i].bands
   /\ \A m \in Months : \A y \in RangeYears :
        \E i \in DOMAIN Requested.images :
          Requested.images[i].props["system:time_start"] = fromYMD(y, m))
    => \A k \in Range(VAR_KEYS) \ {"tp"} :
         /\ clim[k] = monthlyClimatology(RepairedX, BAND[k], metric)
         /\ chartMonthly[k] = monthlyValuesForChart(clim[k], BAND[k], AOI)
         /\ chartAnnual[k] =
              annualSeries(RepairedX, BAND[k], ANNUAL_METHOD[k], AOI,
                           START_YEAR, END_YEAR)

\* --------------------------------------------------------- unit conversion
Synthetic ==
  Image(("system:time_start" :> fromYMD(2000, 3)) @@ ("month" :> 3),
        [b \in Range(RAW_BANDS) |->
           [p \in Pixels |-> IF b = "total_precipitation" THEN 1
                             ELSE IF b = "u_component_of_wind_10m" THEN 0 - 2500
                             ELSE 273150]])
RENAMED == [total_precipitation |-> "tp_mm",
            mean_2m_air_temperature |-> "tmean_C",
            minimum_2m_air_temperature |-> "tmin_C",
            maximum_2m_air_temperature |-> "tmax_C",
            u_component_of_wind_10m |-> "u10",
            v_component_of_wind_10m |-> "v10"]
HasTime(im) == "system:time_start" \in DOMAIN im.props
MonthGroup(ic, m) ==
  { i \in DOMAIN ic.images :
      \E j \in DOMAIN FilterCalendar(ic, "month", m).images :
        FilterCalendar(ic, "month", m).images[j] = ic.images[i] }
YearGroup(ic, y) ==
  { i \in DOMAIN ic.images :
      \E j \in DOMAIN FilterCalendar(ic, "year", y).images :
        FilterCalendar(ic, "year", y).images[j] = ic.images[i] }

\* C8: unit conversion leaves the time stamp of every image unchanged, so
\* month and year grouping select the same images before and after it; wind
\* is renamed only, precipitation is multiplied by 1000 and each temperature
\* is reduced by 273.15 (0.001 m gives 1.0 mm, 273.15 K gives 0.0 degC).
C8_ConversionKeepsTimeStamps ==
  \* ERA5x is assigned by ConvertUnits only: pc = "clim" is the state it leaves
  /\ pc = "clim" =>
     LET c == convert(Synthetic)
     IN /\ ~IsErr(c)
        /\ HasTime(c) /\ TimeOf(c) = fromYMD(2000, 3)
        /\ \A p \in Pixels :
             /\ c.bands["tp_mm"][p] = 1000
             /\ c.bands["tmean_C"][p] = 0
             /\ c.bands["tmin_C"][p] = 0
             /\ c.bands["tmax_C"][p] = 0
             /\ c.bands["u10"][p] = 0 - 2500
  /\ (pc = "clim" /\ ~IsErr(ERA5x)) =>
       /\ Len(ERA5x.images) = Len(ERA5.images)
       /\ \A i \in DOMAIN ERA5.images :
            LET raw == ERA5.images[i]
                cv == ERA5x.images[i]
            IN /\ HasTime(cv)
               /\ TimeOf(cv) = TimeOf(raw)
               /\ CalendarMonth(TimeOf(cv)) = raw.props["month"]
               /\ CalendarYear(TimeOf(cv)) = raw.props["year"]
               /\ DOMAIN cv.bands = { RENAMED[b] : b \in Range(RAW_BANDS) }
               /\ \A p \in Pixels :
                    /\ cv.bands["tp_mm"][p] = raw.bands["total_precipitation"][p] * 1000
                    /\ cv.bands["tmean_C"][p] = raw.bands["mean_2m_air_temperature"][p] - 273150
                    /\ cv.bands["tmin_C"][p] = raw.bands["minimum_2m_air_temperature"][p] - 273150
                    /\ cv.bands["tmax_C"][p] = raw.bands["maximum_2m_air_temperature"][p] - 273150
                    /\ cv.bands["u10"][p] = raw.bands["u_component_of_wind_10m"][p]
                    /\ cv.bands["v10"][p] = raw.bands["v_component_of_wind_10m"][p]
       /\ \A m \in Months : MonthGroup(ERA5x, m) = MonthGroup(ERA5, m)
       /\ \A y \in Years : YearGroup(ERA5x, y) = YearGroup(ERA5, y)

\* a converted series of more than a year with varying precipitation
C8_Witness ==
  /\ pc = "clim"
  /\ ~IsErr(ERA5x)
  /\ Len(ERA5x.images) > 12
  /\ \E i \in DOMAIN ERA5.images : ERA5.images[i].bands["total_precipitation"][1] > 10

\* ------------------------------------------------------------ monthly table
\* the table of variable k: 12 rows in month order, labelled Jan..Dec, each
\* value the areal mean of the composite tagged with that month
MonthlyTableShape(k) ==
  LET t == chartMonthly[k]
      b == BAND[k]
      names == <<"Jan","Feb","Mar","Apr","May","Jun","Jul","Aug","Sep","Oct","Nov","Dec">>
  IN /\ ~IsErr(t)
     /\ Len(t.features) = 12
     /\ \A m \in Months :
          /\ t.features[m].month = m
          /\ t.features[m].label = names[m]
          /\ \E j \in DOMAIN clim[k].images :
               /\ clim[k].images[j].props["month"] = m
               /\ t.features[m].value =
                    ArealMean(LAMBDA p : clim[k].images[j].bands[b][p])

\* C9: monthlyValuesForChart returns exactly 12 rows in ascending month
\* order; the row of month m carries label m of Jan..Dec and the spatial
\* reduction of the composite tagged month = m.
C9_TwelveLabelledRows ==
  (Past("monthlyCharts") /\ WellFormedRun) =>
    \A k \in Range(VAR_KEYS) : MonthlyTableShape(k)

\* what the code does keep (C9): the same statement for a series that holds
\* at least one image of every calendar month
C9_HoldsWhenNoMonthIsEmpty ==
  (Past("monthlyCharts") /\ WellFormedRun /\ \A m \in Months : InMonth(ERA5x, m) # {})
    => \A k \in Range(VAR_KEYS) : MonthlyTableShape(k)

\* ---------------------------------------------------------------------- map
\* C10: after the initial updateMap call and after any sequence of widget
\* changes the map holds exactly two layers: the AOI outline, then the
\* composite of the selected variable for the selected month.
C10_MapShowsCurrentSelection ==
  pc = "ready" =>
    /\ Len(mapLayers) = 2
    /\ mapLayers[1].name = "AOI"
    /\ mapLayers[1].eeObject = "aoiOutline"
    /\ selVar \in UI_LABELS
    /\ selMonth \in Months
    /\ LET k == KeyOfLabel(selVar)
           layer == mapLayers[2]
       IN /\ layer.name = "Monthly Climatology -- " \o selVar \o " -- "
                            \o MONTH_NAMES[selMonth]
          /\ layer.visParams = VIZ[BAND[k]]
          /\ IsErr(layer.eeObject) <=> IsErr(clim[k])
          /\ ~IsErr(layer.eeObject) =>
               /\ layer.eeObject.props["month"] = selMonth
               /\ DOMAIN layer.eeObject.bands = {BAND[k]}
               /\ \A p \in AOI.pixels :
                    layer.eeObject.bands[BAND[k]][p] =
                      clim[k].images[selMonth].bands[BAND[k]][p]

\* the user has moved both widgets and the composite evaluates
C10_Witness ==
  /\ pc = "ready"
  /\ selVar = "Max Air Temp (degC)"
  /\ selMonth = 7
  /\ ~IsErr(mapLayers[2].eeObject)
  /\ AOI.pixels # {}

\* reached: a constant series with a full and a partial year, summed per year
C3_ConstantSeriesReached ==
  /\ pc = "ready" /\ ~IsErr(chartAnnual["tp"]) /\ AOI.pixels # {}
  /\ Len(chartAnnual["tp"].features) = 2
  /\ chartAnnual["tp"].features[1].value = Num(120000)
  /\ chartAnnual["tp"].features[2].value = Num(10000 * PartialMonths)
  /\ chartAnnual["tmean"].features[2].value = Num(20000)
====
